---- MODULE Spec2Model ----
(***************************************************************************)
(* The grading council of backend/app/services/llm.py: grade_with_council  *)
(* fans one grade_with_model task out per model (asyncio.gather with       *)
(* return_exceptions=True), each task calling call_llm under the tenacity  *)
(* retry decorator, then measures agreement, optionally runs a second      *)
(* round, and aggregates.                                                  *)
(*                                                                         *)
(* Numbers: Python floats are modelled as exact rationals <<num, den>>     *)
(* with den > 0, kept in lowest terms.  Evidence, feedback and token       *)
(* counts are carried by the code unchanged and are left out of the grade  *)
(* records.                                                                *)
(***************************************************************************)
EXTENDS Integers, Sequences, FiniteSets, TLC

\* ------------------------------------------------------------------------
\* Bounds and program constants
\* ------------------------------------------------------------------------

\* Largest score a modelled grader reports (scores range over 0..MaxPoints).
MaxPoints == 2

\* Largest number of grade dicts passed to calculate_agreement and
\* aggregate_grades when they are exercised on their own.
MaxGraders == 3

\* stop_after_attempt(3)
MaxAttempts == 3

\* wait_exponential(multiplier=1, min=1, max=10)
WaitMultiplier == 1
WaitMin == 1
WaitMax == 10

\* GradingConfig.models default
DefaultModels == <<"gpt-4.1", "claude-opus-4-5-20251101", "gemini-2.5-pro">>

\* ------------------------------------------------------------------------
\* Exact rational arithmetic
\* ------------------------------------------------------------------------

Abs(x) == IF x < 0 THEN -x ELSE x

RECURSIVE GCD(_, _)
GCD(a, b) == IF b = 0 THEN a ELSE GCD(b, a % b)

Rat(n, d) ==
    LET g == GCD(Abs(n), Abs(d))
        s == IF d < 0 THEN -1 ELSE 1
    IN  <<(s * n) \div g, (s * d) \div g>>

FromInt(n) == <<n, 1>>
RAdd(x, y) == Rat(x[1] * y[2] + y[1] * x[2], x[2] * y[2])
RSub(x, y) == Rat(x[1] * y[2] - y[1] * x[2], x[2] * y[2])
RMul(x, y) == Rat(x[1] * y[1], x[2] * y[2])
RDiv(x, y) == Rat(x[1] * y[2], x[2] * y[1])
RLe(x, y) == x[1] * y[2] <= y[1] * x[2]
RLt(x, y) == x[1] * y[2] < y[1] * x[2]
RMin(x, y) == IF RLe(x, y) THEN x ELSE y
RMax(x, y) == IF RLe(x, y) THEN y ELSE x

RECURSIVE RSum(_)
RSum(s) == IF s = <<>> THEN FromInt(0) ELSE RAdd(Head(s), RSum(Tail(s)))

RECURSIVE Pow10(_)
Pow10(k) == IF k = 0 THEN 1 ELSE 10 * Pow10(k - 1)

Round_Truncate(x, digits) ==
    Rat((x[1] * Pow10(digits)) \div x[2], Pow10(digits))

\* Python round(x, digits): nearest multiple of 10^-digits, ties to even.
Round(x, digits) ==
    LET n == x[1] * Pow10(digits)
        d == x[2]
        q == n \div d
        r == n - q * d
        up == \/ 2 * r > d
              \/ 2 * r = d /\ q % 2 = 1
    IN  Rat(IF up THEN q + 1 ELSE q, Pow10(digits))

\* A float-valued local is a rational, Unassigned before its assignment, or
\* ZeroDivisionError when the expression computing it raised.
Unassigned == <<0, 0>>
ZeroDivisionError == <<1, 0>>
IsNumber(x) == x[2] # 0

\* ------------------------------------------------------------------------
\* calculate_agreement
\* ------------------------------------------------------------------------

\* The score dicts of all grades, in the order the nested loops visit them.
RECURSIVE AllEntries(_)
AllEntries(grades) ==
    IF grades = <<>> THEN <<>>
    ELSE Head(grades).scores \o AllEntries(Tail(grades))

\* Category names in first-insertion order (the keys of the dict).
RECURSIVE CategoryKeys(_, _)
CategoryKeys(entries, seen) ==
    IF entries = <<>> THEN <<>>
    ELSE IF Head(entries).category \in seen
         THEN CategoryKeys(Tail(entries), seen)
         ELSE <<Head(entries).category>>
              \o CategoryKeys(Tail(entries), seen \cup {Head(entries).category})

EntriesOf(entries, cat) == SelectSeq(entries, LAMBDA e : e.category = cat)

Normalized_Raw(e) == FromInt(e.score)

\* score["score"] / score["max_score"]
Normalized(e) == RDiv(FromInt(e.score), FromInt(e.max_score))

Variance_Sample(scores) ==
    LET n == FromInt(Len(scores))
        mean == RDiv(RSum(scores), n)
        sq == [i \in 1..Len(scores) |->
                 RMul(RSub(scores[i], mean), RSub(scores[i], mean))]
    IN  RDiv(RSum(sq), FromInt(Len(scores) - 1))

\* Lines 415-416: population variance of one category's normalized scores.
Variance(scores) ==
    LET n == FromInt(Len(scores))
        mean == RDiv(RSum(scores), n)
        sq == [i \in 1..Len(scores) |->
                 RMul(RSub(scores[i], mean), RSub(scores[i], mean))]
    IN  RDiv(RSum(sq), n)

calculate_agreement(grades) ==
    IF Len(grades) < 2 THEN FromInt(1)
    ELSE
      LET entries == AllEntries(grades)
          keys == CategoryKeys(entries, {})
          all_scores == [k \in 1..Len(keys) |->
                LET es == EntriesOf(entries, keys[k])
                IN  [i \in 1..Len(es) |-> Normalized(es[i])]]
          multi == SelectSeq(all_scores, LAMBDA s : Len(s) > 1)
          variances == [k \in 1..Len(multi) |-> Variance(multi[k])]
      IN  IF \E i \in 1..Len(entries) : entries[i].max_score = 0
          THEN ZeroDivisionError
          ELSE IF variances = <<>> THEN FromInt(1)
          ELSE LET avg_variance == RDiv(RSum(variances), FromInt(Len(variances)))
                   agreement == RSub(FromInt(1),
                                     RMin(RMul(avg_variance, FromInt(4)), FromInt(1)))
               IN  RMax(FromInt(0), agreement)

\* ------------------------------------------------------------------------
\* aggregate_grades
\* ------------------------------------------------------------------------

DefaultWeight_Zero == FromInt(0)

\* Line 457: the weight of the stand-in RubricCategory for a name that the
\* rubric lacks.
DefaultWeight == FromInt(1)

\* rubric_lookup.get(cat_name, RubricCategory(..., weight=1.0)).weight; a dict
\* comprehension keeps the last category of a given name.
RECURSIVE RubricWeight(_, _)
RubricWeight_Ignored(rubric, name) == FromInt(1)

RubricWeight(rubric, name) ==
    IF rubric = <<>> THEN DefaultWeight
    ELSE IF rubric[Len(rubric)].name = name
         THEN rubric[Len(rubric)].weight
         ELSE RubricWeight(SubSeq(rubric, 1, Len(rubric) - 1), name)

aggregate_grades(grades, rubric) ==
    LET entries == AllEntries(grades)
        keys == CategoryKeys(entries, {})
        avg(cat) == LET es == EntriesOf(entries, cat)
                    IN  RDiv(RSum([i \in 1..Len(es) |-> FromInt(es[i].score)]),
                             FromInt(Len(es)))
        maxsc(cat) == EntriesOf(entries, cat)[1].max_score
        final_scores == [k \in 1..Len(keys) |->
              [category |-> keys[k],
               score |-> Round(avg(keys[k]), 2),
               max_score |-> maxsc(keys[k])]]
        total_score == RSum([k \in 1..Len(keys) |->
              RMul(avg(keys[k]), RubricWeight(rubric, keys[k]))])
        max_possible == RSum([k \in 1..Len(keys) |->
              RMul(FromInt(maxsc(keys[k])), RubricWeight(rubric, keys[k]))])
    IN  [scores |-> final_scores,
         total_score |-> Round(total_score, 2),
         max_possible_score |-> Round(max_possible, 2),
         percentage |-> IF RLt(FromInt(0), max_possible)
                        THEN Round(RMul(RDiv(total_score, max_possible), FromInt(100)), 1)
                        ELSE FromInt(0)]

\* ------------------------------------------------------------------------
\* Inputs of a run
\* ------------------------------------------------------------------------

None == {}
Some(x) == {x}

\* The provider whose key call_llm requires for a model.
Provider(model) ==
    CASE model = "gpt-4.1" -> "openai"
      [] model = "claude-opus-4-5-20251101" -> "anthropic"
      [] model = "gemini-2.5-pro" -> "google"

\* models argument: the configured list, or a shorter list of the same models.
ModelLists == {SubSeq(DefaultModels, 1, n) : n \in 1..Len(DefaultModels)}

Rubrics == {<<[name |-> "Clarity", max_points |-> MaxPoints, weight |-> FromInt(1)]>>}

\* agreement_threshold: the default 0.8, and a laxer 0.5.
Thresholds == {Rat(4, 5), Rat(1, 2)}

\* key_source with the providers the user holds a key for.
Credentials ==
    {[key_source |-> "harvard_unlimited", user_keys |-> {}],
     [key_source |-> "user_keys", user_keys |-> {"openai", "anthropic"}]}

\* What a grader's JSON parses to: one score for the rubric's category,
\* within bounds, or with max_score 0.
GraderScores ==
    {<<[category |-> "Clarity", score |-> s, max_score |-> MaxPoints]>> :
        s \in 0..MaxPoints}
    \cup {<<[category |-> "Clarity", score |-> 0, max_score |-> 0]>>}

\* The keys grade_with_model reads from the parsed JSON object and from each
\* element of its "scores" list.
ResponseKeys == {"scores", "overall_feedback", "confidence"}
EntryKeys == {"category", "score", "max_score", "evidence", "feedback"}

\* The "confidence" of the prompt's example answer, and the default of
\* data.get("confidence", 0.8).
StatedConfidence == Rat(17, 20)
DefaultConfidence == Rat(4, 5)

\* The content of a model response: whether it is JSON at all, the keys of
\* the object, and its score entries, each with the keys it carries.
Response(scores, keys, entry_keys) ==
    [json |-> TRUE,
     keys |-> keys,
     scores |-> [k \in 1..Len(scores) |->
                   [category |-> scores[k].category, score |-> scores[k].score,
                    max_score |-> scores[k].max_score, keys |-> entry_keys]],
     confidence |-> StatedConfidence]

NotJson == [json |-> FALSE, keys |-> {}, scores |-> <<>>, confidence |-> Unassigned]

\* A complete answer for each score list, or text that is not JSON.
Responses ==
    {Response(s, ResponseKeys, EntryKeys) : s \in GraderScores} \cup {NotJson}

\* ------------------------------------------------------------------------
\* State
\* ------------------------------------------------------------------------

VARIABLES
    models,               \* argument: list of model ids
    rubric,               \* argument: list of rubric categories
    agreement_threshold,  \* argument
    key_source,           \* argument, forwarded to every call
    user_keys,            \* providers for which the user has a key
    pc,                   \* position of grade_with_council
    round1_tasks,         \* the round-1 coroutines handed to gather
    round2_tasks,         \* the round-2 coroutines handed to gather
    round1_grades,        \* local list
    round2_grades,        \* local list
    agreement,            \* local, assigned at line 338
    result,               \* returned dict
    raised,               \* exception that left grade_with_council, or ""
    litellm_keys,         \* module globals litellm.openai_key, .anthropic_key
                          \* and os.environ GOOGLE_API_KEY, set by init_llm
    calls,                \* call_llm invocations of two concurrent runs
    timing,               \* assignment.grading.timing of the session's assignment
    status,               \* the session document's status field
    transcript,           \* number of messages in its transcript field
    grade_docs,           \* documents of the session's "grades" subcollection
    final_doc,            \* document "final" of its "final_grade" subcollection
    workers               \* the grade_session_task background tasks

vars == <<models, rubric, agreement_threshold, key_source, user_keys, pc,
          round1_tasks, round2_tasks, round1_grades, round2_grades,
          agreement, result, raised, litellm_keys, calls,
          timing, status, transcript, grade_docs, final_doc, workers>>

inputs == <<models, rubric, agreement_threshold, key_source, user_keys>>

\* What lies outside one grade_with_council call: the litellm globals and the
\* session's documents.
llm_globals == <<litellm_keys, calls>>
session_docs == <<timing, status, transcript, grade_docs, final_doc, workers>>
outside == <<llm_globals, session_docs>>

Providers == {"openai", "anthropic", "google"}
NoKeys == [p \in Providers |-> ""]

\* No call_llm has run and the session was just created (Session.status
\* defaults to pending, GradingConfig.timing to immediate).
OutsideIdle ==
    /\ litellm_keys = NoKeys
    /\ calls = <<>>
    /\ timing = "immediate"
    /\ status = "pending"
    /\ transcript = 0
    /\ grade_docs = {}
    /\ final_doc = None
    /\ workers = <<>>

NoResult ==
    [round1_grades |-> <<>>, round2_grades |-> None,
     final_grade |-> [scores |-> <<>>, total_score |-> FromInt(0),
                      max_possible_score |-> FromInt(0), percentage |-> FromInt(0)],
     agreement_score |-> Unassigned, rounds_used |-> 0]

AllFailed == "ValueError: All grading models failed"

Init ==
    /\ models \in ModelLists
    /\ rubric \in Rubrics
    /\ agreement_threshold \in Thresholds
    /\ \E c \in Credentials : key_source = c.key_source /\ user_keys = c.user_keys
    /\ pc = "start"
    /\ round1_tasks = <<>>
    /\ round2_tasks = <<>>
    /\ round1_grades = <<>>
    /\ round2_grades = <<>>
    /\ agreement = Unassigned
    /\ result = NoResult
    /\ raised = ""
    /\ OutsideIdle

\* ------------------------------------------------------------------------
\* call_llm under @retry, inside grade_with_model
\* ------------------------------------------------------------------------

\* The ValueError of lines 94-101 (the run has a user; the check is skipped
\* for every key_source other than "user_keys").
KeyMissing(model) ==
    key_source = "user_keys" /\ Provider(model) \notin user_keys

RECURSIVE Pow2(_)
Pow2(k) == IF k = 0 THEN 1 ELSE 2 * Pow2(k - 1)

\* wait_exponential: multiplier * 2^(attempt-1), clamped to [min, max].
wait_exponential(attempt_number) ==
    LET exp == WaitMultiplier * Pow2(attempt_number - 1)
        lo == IF exp < WaitMax THEN exp ELSE WaitMax
    IN  IF lo > WaitMin THEN lo ELSE WaitMin

\* The parts of the prompt that vary: the rubric lines, and in round 2 the
\* model name and scores of every entry of previous_grades.
build_grading_prompt(rubric_arg, round_num, previous_grades) ==
    [rubric |-> rubric_arg,
     round_num |-> round_num,
     other_grades |-> IF round_num = 1 THEN <<>>
                      ELSE [k \in 1..Len(previous_grades) |->
                              [model |-> previous_grades[k].model,
                               scores |-> previous_grades[k].scores]]]

NewTask_NoKeySource(model, round_num, previous_grades) ==
    [model |-> model, round_num |-> round_num,
     prompt |-> build_grading_prompt(rubric, round_num, previous_grades),
     key_source |-> "", st |-> "created", attempt_number |-> 0,
     wait |-> 0, scores |-> <<>>, confidence |-> Unassigned, error |-> ""]

\* A grade_with_model coroutine: its arguments, the prompt it sends, and the
\* position of its call_llm call.
NewTask(model, round_num, previous_grades) ==
    [model |-> model, round_num |-> round_num,
     prompt |-> build_grading_prompt(rubric, round_num, previous_grades),
     key_source |-> key_source, st |-> "created", attempt_number |-> 0,
     wait |-> 0, scores |-> <<>>, confidence |-> Unassigned, error |-> ""]

AfterFailure_OneMore(t, k) ==
    IF k > MaxAttempts
    THEN [t EXCEPT !.st = "raised", !.error = "RetryError",
                   !.attempt_number = 0, !.wait = 0]
    ELSE [t EXCEPT !.st = "sleeping", !.attempt_number = k,
                   !.wait = wait_exponential(k)]

\* stop_after_attempt: an attempt raised; give up or sleep before the next.
AfterFailure(t, k) ==
    IF k >= MaxAttempts
    THEN [t EXCEPT !.st = "raised", !.error = "RetryError",
                   !.attempt_number = 0, !.wait = 0]
    ELSE [t EXCEPT !.st = "sleeping", !.attempt_number = k,
                   !.wait = wait_exponential(k)]

\* Attempt k runs call_llm up to its await: the key check raises at once,
\* otherwise the provider call is in flight.
StartAttempt(t, k) ==
    IF KeyMissing(t.model)
    THEN AfterFailure(t, k)
    ELSE [t EXCEPT !.st = "calling", !.attempt_number = k, !.wait = 0]

Done(t) == t.st \in {"returned", "raised"}

GatherDone_FailFast(tasks) ==
    \/ \E i \in DOMAIN tasks : tasks[i].st = "raised"
    \/ \A i \in DOMAIN tasks : Done(tasks[i])

\* asyncio.gather(..., return_exceptions=True) resumes its caller once every
\* awaitable has a result or an exception.
GatherDone(tasks) == \A i \in DOMAIN tasks : Done(tasks[i])

\* The zip loop: one grade dict per task that returned, in models order.
RECURSIVE CollectGrades(_)
CollectGrades_Compacted(tasks) ==
    LET returned == SelectSeq(tasks, LAMBDA t : t.st = "returned")
    IN  [k \in 1..Len(returned) |->
           [model |-> tasks[k].model, scores |-> returned[k].scores,
            confidence |-> returned[k].confidence]]

CollectGrades(tasks) ==
    IF tasks = <<>> THEN <<>>
    ELSE (IF Head(tasks).st = "returned"
          THEN <<[model |-> Head(tasks).model, scores |-> Head(tasks).scores,
                  confidence |-> Head(tasks).confidence]>>
          ELSE <<>>) \o CollectGrades(Tail(tasks))

Gathering(r) == pc = (IF r = 1 THEN "round1_gather" ELSE "round2_gather")
Tasks(r) == IF r = 1 THEN round1_tasks ELSE round2_tasks

SetTask(r, i, t) ==
    /\ round1_tasks' = IF r = 1 THEN [round1_tasks EXCEPT ![i] = t] ELSE round1_tasks
    /\ round2_tasks' = IF r = 2 THEN [round2_tasks EXCEPT ![i] = t] ELSE round2_tasks
    /\ UNCHANGED <<inputs, outside, pc, round1_grades, round2_grades, agreement, result, raised>>

\* litellm.acompletion raises (network or provider error).
CallFails(r, i) ==
    /\ Gathering(r)
    /\ i \in DOMAIN Tasks(r)
    /\ Tasks(r)[i].st = "calling"
    /\ SetTask(r, i, AfterFailure(Tasks(r)[i], Tasks(r)[i].attempt_number))

\* The sleep between two attempts ends and the next attempt starts.
RetryWakes(r, i) ==
    /\ Gathering(r)
    /\ i \in DOMAIN Tasks(r)
    /\ Tasks(r)[i].st = "sleeping"
    /\ SetTask(r, i, StartAttempt(Tasks(r)[i], Tasks(r)[i].attempt_number + 1))

ParseGrading_ConfidenceRequired(content) ==
    IF \/ ~content.json
       \/ ~(ResponseKeys \subseteq content.keys)
       \/ \E k \in DOMAIN content.scores : ~(EntryKeys \subseteq content.scores[k].keys)
    THEN [ok |-> FALSE, scores |-> <<>>, confidence |-> Unassigned]
    ELSE [ok |-> TRUE,
          scores |-> [k \in DOMAIN content.scores |->
                        [category |-> content.scores[k].category,
                         score |-> content.scores[k].score,
                         max_score |-> content.scores[k].max_score]],
          confidence |-> content.confidence]

\* Lines 265-288: json.loads, the five lookups per score entry,
\* data["overall_feedback"] and data.get("confidence", 0.8).  A JSONDecodeError
\* or KeyError becomes the ValueError of line 288 (ok = FALSE).
ParseGrading(content) ==
    IF \/ ~content.json
       \/ "scores" \notin content.keys
       \/ \E k \in DOMAIN content.scores : ~(EntryKeys \subseteq content.scores[k].keys)
       \/ "overall_feedback" \notin content.keys
    THEN [ok |-> FALSE, scores |-> <<>>, confidence |-> Unassigned]
    ELSE [ok |-> TRUE,
          scores |-> [k \in DOMAIN content.scores |->
                        [category |-> content.scores[k].category,
                         score |-> content.scores[k].score,
                         max_score |-> content.scores[k].max_score]],
          confidence |-> IF "confidence" \in content.keys
                         THEN content.confidence ELSE DefaultConfidence]

\* litellm.acompletion returns and the content parses into a GradingResult.
CallReturnsGrade(r, i, content) ==
    /\ Gathering(r)
    /\ i \in DOMAIN Tasks(r)
    /\ Tasks(r)[i].st = "calling"
    /\ ParseGrading(content).ok
    /\ SetTask(r, i, [Tasks(r)[i] EXCEPT !.st = "returned",
                                         !.scores = ParseGrading(content).scores,
                                         !.confidence = ParseGrading(content).confidence,
                                         !.attempt_number = 0])

\* litellm.acompletion returns content that json.loads or the field lookups
\* reject: grade_with_model raises ValueError, outside the retry.
CallReturnsMalformed(r, i, content) ==
    /\ Gathering(r)
    /\ i \in DOMAIN Tasks(r)
    /\ Tasks(r)[i].st = "calling"
    /\ ~ParseGrading(content).ok
    /\ SetTask(r, i, [Tasks(r)[i] EXCEPT !.st = "raised", !.error = "ValueError",
                                         !.attempt_number = 0])

\* ------------------------------------------------------------------------
\* grade_with_council
\* ------------------------------------------------------------------------

\* Lines 311-314: one round-1 coroutine per model, run to its first await.
Round1TaskList ==
    [i \in 1..Len(models) |-> StartAttempt(NewTask(models[i], 1, <<>>), 1)]

Round2TaskList_SurvivorsOnly(previous_grades) ==
    [i \in 1..Len(previous_grades) |->
        StartAttempt(NewTask(previous_grades[i].model, 2, previous_grades), 1)]

\* Lines 352-363: one round-2 coroutine per model, run to its first await.
Round2TaskList(previous_grades) ==
    [i \in 1..Len(models) |->
        StartAttempt(NewTask(models[i], 2, previous_grades), 1)]

GradesToUse_NoFallback(r1, r2) == r2

\* Line 383.
GradesToUse(r1, r2) == IF r2 # <<>> THEN r2 ELSE r1

Round2GradesField_AlwaysList(r2) == Some(r2)

\* Line 389.
Round2GradesField(r2) == IF r2 # <<>> THEN Some(r2) ELSE None

\* Line 392.
RoundsUsed(r2) == IF r2 # <<>> THEN 2 ELSE 1

\* Lines 311-315: build one coroutine per model and await the gather.
Round1Dispatch ==
    /\ pc = "start"
    /\ round1_tasks' = Round1TaskList
    /\ pc' = "round1_gather"
    /\ UNCHANGED <<inputs, outside, round2_tasks, round1_grades, round2_grades,
                   agreement, result, raised>>

Round1AllFailed_NoRaise ==
    /\ pc = "round1_gather"
    /\ GatherDone(round1_tasks)
    /\ round1_grades' = CollectGrades(round1_tasks)
    /\ round1_grades' = <<>>
    /\ agreement' = calculate_agreement(round1_grades')
    /\ result' = [round1_grades |-> round1_grades',
                  round2_grades |-> None,
                  final_grade |-> aggregate_grades(round1_grades', rubric),
                  agreement_score |-> agreement',
                  rounds_used |-> 1]
    /\ pc' = "returned"
    /\ UNCHANGED <<inputs, outside, round1_tasks, round2_tasks, round2_grades, raised>>

\* Lines 317-335: every round-1 task raised.
Round1AllFailed ==
    /\ pc = "round1_gather"
    /\ GatherDone(round1_tasks)
    /\ round1_grades' = CollectGrades(round1_tasks)
    /\ round1_grades' = <<>>
    /\ raised' = AllFailed
    /\ pc' = "raised"
    /\ UNCHANGED <<inputs, outside, round1_tasks, round2_tasks, round2_grades,
                   agreement, result>>

\* Lines 317-338: calculate_agreement raises on the round-1 grades.
Round1AgreementRaises ==
    /\ pc = "round1_gather"
    /\ GatherDone(round1_tasks)
    /\ round1_grades' = CollectGrades(round1_tasks)
    /\ round1_grades' # <<>>
    /\ ~IsNumber(calculate_agreement(round1_grades'))
    /\ raised' = "ZeroDivisionError"
    /\ pc' = "raised"
    /\ UNCHANGED <<inputs, outside, round1_tasks, round2_tasks, round2_grades,
                   agreement, result>>

\* Lines 317-349: agreement reaches the threshold, return round-1 results.
Round1Agreed ==
    /\ pc = "round1_gather"
    /\ GatherDone(round1_tasks)
    /\ round1_grades' = CollectGrades(round1_tasks)
    /\ round1_grades' # <<>>
    /\ agreement' = calculate_agreement(round1_grades')
    /\ IsNumber(agreement')
    /\ RLe(agreement_threshold, agreement')
    /\ result' = [round1_grades |-> round1_grades',
                  round2_grades |-> None,
                  final_grade |-> aggregate_grades(round1_grades', rubric),
                  agreement_score |-> agreement',
                  rounds_used |-> 1]
    /\ pc' = "returned"
    /\ UNCHANGED <<inputs, outside, round1_tasks, round2_tasks, round2_grades, raised>>

\* Lines 317-364: agreement below the threshold, gather the round-2 tasks.
Round2Dispatch ==
    /\ pc = "round1_gather"
    /\ GatherDone(round1_tasks)
    /\ round1_grades' = CollectGrades(round1_tasks)
    /\ round1_grades' # <<>>
    /\ agreement' = calculate_agreement(round1_grades')
    /\ IsNumber(agreement')
    /\ ~RLe(agreement_threshold, agreement')
    /\ round2_tasks' = Round2TaskList(round1_grades')
    /\ pc' = "round2_gather"
    /\ UNCHANGED <<inputs, outside, round1_tasks, round2_grades, result, raised>>

\* Lines 366-393: collect round 2, aggregate and return.
Round2Collect ==
    /\ pc = "round2_gather"
    /\ GatherDone(round2_tasks)
    /\ round2_grades' = CollectGrades(round2_tasks)
    /\ LET grades_to_use == GradesToUse(round1_grades, round2_grades')
           final_grade == aggregate_grades(grades_to_use, rubric)
           final_agreement == calculate_agreement(grades_to_use)
       IN  IF IsNumber(final_agreement)
           THEN /\ result' = [round1_grades |-> round1_grades,
                              round2_grades |-> Round2GradesField(round2_grades'),
                              final_grade |-> final_grade,
                              agreement_score |-> final_agreement,
                              rounds_used |-> RoundsUsed(round2_grades')]
                /\ pc' = "returned"
                /\ UNCHANGED raised
           ELSE /\ raised' = "ZeroDivisionError"
                /\ pc' = "raised"
                /\ UNCHANGED result
    /\ UNCHANGED <<inputs, outside, round1_tasks, round2_tasks, round1_grades, agreement>>

Next ==
    \/ Round1Dispatch
    \/ \E r \in {1, 2}, i \in 1..Len(DefaultModels) : CallFails(r, i)
    \/ \E r \in {1, 2}, i \in 1..Len(DefaultModels) : RetryWakes(r, i)
    \/ \E r \in {1, 2}, i \in 1..Len(DefaultModels), content \in Responses :
          CallReturnsGrade(r, i, content)
    \/ \E r \in {1, 2}, i \in 1..Len(DefaultModels), content \in Responses :
          CallReturnsMalformed(r, i, content)
    \/ Round1AllFailed
    \/ Round1AgreementRaises
    \/ Round1Agreed
    \/ Round2Dispatch
    \/ Round2Collect

Spec == Init /\ [][Next]_vars

\* ------------------------------------------------------------------------
\* Runs with unvalidated answers: two models whose graders may report scores
\* outside [0, max_score], differing max_score values, or incomplete JSON
\* ------------------------------------------------------------------------

Entry(category, score, max_score) ==
    [category |-> category, score |-> score, max_score |-> max_score]

\* Score lists that parse: CategoryScore accepts any two floats.
WideScores ==
    {<<Entry("Clarity", MaxPoints, MaxPoints)>>,
     <<Entry("Clarity", 1, MaxPoints)>>,
     <<Entry("Clarity", 1, 1)>>,
     <<Entry("Clarity", MaxPoints + 1, MaxPoints)>>,
     <<Entry("Clarity", -1, MaxPoints)>>,
     <<Entry("Clarity", 0, 0)>>}

\* Complete answers, text that is not JSON, and answers lacking one key.
WideResponses ==
    {Response(s, ResponseKeys, EntryKeys) : s \in WideScores}
    \cup {NotJson}
    \cup {Response(<<Entry("Clarity", MaxPoints, MaxPoints)>>,
                   ResponseKeys \ {k}, EntryKeys) :
            k \in {"overall_feedback", "confidence"}}
    \cup {Response(<<>>, ResponseKeys \ {"scores"}, EntryKeys)}
    \cup {Response(<<Entry("Clarity", MaxPoints, MaxPoints)>>,
                   ResponseKeys, EntryKeys \ {k}) : k \in {"score", "evidence"}}

WideThresholds == {Rat(4, 5), FromInt(1)}

InitWide ==
    /\ models = SubSeq(DefaultModels, 1, 2)
    /\ rubric \in Rubrics
    /\ agreement_threshold \in WideThresholds
    /\ key_source = "harvard_unlimited"
    /\ user_keys = {}
    /\ pc = "start"
    /\ round1_tasks = <<>>
    /\ round2_tasks = <<>>
    /\ round1_grades = <<>>
    /\ round2_grades = <<>>
    /\ agreement = Unassigned
    /\ result = NoResult
    /\ raised = ""
    /\ OutsideIdle

NextWide ==
    \/ Round1Dispatch
    \/ \E r \in {1, 2}, i \in 1..Len(DefaultModels) : CallFails(r, i)
    \/ \E r \in {1, 2}, i \in 1..Len(DefaultModels) : RetryWakes(r, i)
    \/ \E r \in {1, 2}, i \in 1..Len(DefaultModels), content \in WideResponses :
          CallReturnsGrade(r, i, content)
    \/ \E r \in {1, 2}, i \in 1..Len(DefaultModels), content \in WideResponses :
          CallReturnsMalformed(r, i, content)
    \/ Round1AllFailed
    \/ Round1AgreementRaises
    \/ Round1Agreed
    \/ Round2Dispatch
    \/ Round2Collect

SpecWide == InitWide /\ [][NextWide]_vars

\* ------------------------------------------------------------------------
\* calculate_agreement and aggregate_grades called on their own: the grades
\* argument is held in round1_grades, the return values in agreement and
\* result.final_grade
\* ------------------------------------------------------------------------

\* Score lists of one grade dict: none, one or two categories, a category
\* listed twice, max_score 0 or negative, a differing max_score, a score above
\* max_score.
PureScores ==
    {<<>>,
     <<Entry("Clarity", 0, MaxPoints)>>,
     <<Entry("Clarity", 1, MaxPoints)>>,
     <<Entry("Clarity", MaxPoints, MaxPoints)>>,
     <<Entry("Clarity", MaxPoints + 1, MaxPoints)>>,
     <<Entry("Clarity", 0, 0)>>,
     <<Entry("Clarity", 1, 1)>>,
     <<Entry("Clarity", 1, -1)>>,
     <<Entry("Depth", 1, MaxPoints)>>,
     <<Entry("Clarity", MaxPoints, MaxPoints), Entry("Depth", 1, MaxPoints)>>,
     <<Entry("Clarity", 1, MaxPoints), Entry("Depth", MaxPoints, MaxPoints)>>,
     <<Entry("Clarity", 0, MaxPoints), Entry("Clarity", MaxPoints, MaxPoints)>>}

\* Grade dicts of up to MaxGraders graders, named after the configured models.
PureGrades ==
    UNION {[1..n -> PureScores] : n \in 0..MaxGraders}

GradeList(score_lists) ==
    [k \in DOMAIN score_lists |->
        [model |-> DefaultModels[((k - 1) % Len(DefaultModels)) + 1],
         scores |-> score_lists[k],
         confidence |-> StatedConfidence]]

\* Rubrics: both categories weighted 1 and 2, or Clarity alone at weight 1/2.
PureRubrics ==
    {<<[name |-> "Clarity", max_points |-> MaxPoints, weight |-> FromInt(1)],
       [name |-> "Depth", max_points |-> MaxPoints, weight |-> FromInt(2)]>>,
     <<[name |-> "Clarity", max_points |-> MaxPoints, weight |-> Rat(1, 2)]>>}

InitPure ==
    /\ models = DefaultModels
    /\ rubric \in PureRubrics
    /\ agreement_threshold = Rat(4, 5)
    /\ key_source = "harvard_unlimited"
    /\ user_keys = {}
    /\ pc \in {"calculate_agreement", "aggregate_grades"}
    /\ round1_tasks = <<>>
    /\ round2_tasks = <<>>
    /\ \E g \in PureGrades : round1_grades = GradeList(g)
    /\ round2_grades = <<>>
    /\ agreement = Unassigned
    /\ result = NoResult
    /\ raised = ""
    /\ OutsideIdle

\* calculate_agreement(grades) returns.
CalculateAgreementReturns ==
    /\ pc = "calculate_agreement"
    /\ IsNumber(calculate_agreement(round1_grades))
    /\ agreement' = calculate_agreement(round1_grades)
    /\ pc' = "agreement_returned"
    /\ UNCHANGED <<inputs, outside, round1_tasks, round2_tasks, round1_grades,
                   round2_grades, result, raised>>

\* calculate_agreement(grades) raises at line 409.
CalculateAgreementRaises ==
    /\ pc = "calculate_agreement"
    /\ ~IsNumber(calculate_agreement(round1_grades))
    /\ raised' = "ZeroDivisionError"
    /\ pc' = "agreement_raised"
    /\ UNCHANGED <<inputs, outside, round1_tasks, round2_tasks, round1_grades,
                   round2_grades, agreement, result>>

\* aggregate_grades(grades, rubric) returns.
AggregateGradesReturns ==
    /\ pc = "aggregate_grades"
    /\ result' = [NoResult EXCEPT
                    !.final_grade = aggregate_grades(round1_grades, rubric)]
    /\ pc' = "aggregate_returned"
    /\ UNCHANGED <<inputs, outside, round1_tasks, round2_tasks, round1_grades,
                   round2_grades, agreement, raised>>

NextPure ==
    \/ CalculateAgreementReturns
    \/ CalculateAgreementRaises
    \/ AggregateGradesReturns

SpecPure == InitPure /\ [][NextPure]_vars

\* ------------------------------------------------------------------------
\* A run of the three default models on a two-category rubric, each model
\* answering the same complete JSON in either round
\* ------------------------------------------------------------------------

ScenarioRubric ==
    <<[name |-> "Clarity", max_points |-> 5, weight |-> FromInt(1)],
      [name |-> "Depth", max_points |-> 5, weight |-> FromInt(2)]>>

\* The score lists of the first, second and third model.
ScenarioScores ==
    <<<<Entry("Clarity", 4, 5), Entry("Depth", 3, 5)>>,
      <<Entry("Clarity", 4, 5), Entry("Depth", 4, 5)>>,
      <<Entry("Clarity", 5, 5), Entry("Depth", 3, 5)>>>>

\* agreement_threshold: the default 0.8, and a strict 0.99.
ScenarioThresholds == {Rat(4, 5), Rat(99, 100)}

InitScenario ==
    /\ models = DefaultModels
    /\ rubric = ScenarioRubric
    /\ agreement_threshold \in ScenarioThresholds
    /\ key_source = "harvard_unlimited"
    /\ user_keys = {}
    /\ pc = "start"
    /\ round1_tasks = <<>>
    /\ round2_tasks = <<>>
    /\ round1_grades = <<>>
    /\ round2_grades = <<>>
    /\ agreement = Unassigned
    /\ result = NoResult
    /\ raised = ""
    /\ OutsideIdle

NextScenario ==
    \/ Round1Dispatch
    \/ \E r \in {1, 2}, i \in 1..Len(DefaultModels) : CallFails(r, i)
    \/ \E r \in {1, 2}, i \in 1..Len(DefaultModels) : RetryWakes(r, i)
    \/ \E r \in {1, 2}, i \in 1..Len(DefaultModels) :
          CallReturnsGrade(r, i, Response(ScenarioScores[i], ResponseKeys, EntryKeys))
    \/ Round1AllFailed
    \/ Round1Agreed
    \/ Round2Dispatch
    \/ Round2Collect

SpecScenario == InitScenario /\ [][NextScenario]_vars

\* ------------------------------------------------------------------------
\* call_llm invoked concurrently by two grading runs with different
\* credential sources
\* ------------------------------------------------------------------------

council == <<inputs, pc, round1_tasks, round2_tasks, round1_grades,
             round2_grades, agreement, result, raised>>

\* No grade_with_council call is being followed.
CouncilIdle ==
    /\ models = DefaultModels
    /\ rubric = ScenarioRubric
    /\ agreement_threshold = Rat(4, 5)
    /\ key_source = "harvard_unlimited"
    /\ user_keys = {}
    /\ pc = "idle"
    /\ round1_tasks = <<>>
    /\ round2_tasks = <<>>
    /\ round1_grades = <<>>
    /\ round2_grades = <<>>
    /\ agreement = Unassigned
    /\ result = NoResult
    /\ raised = ""

\* init_llm lines 40-49: the three keys it selects for a key_source, "user"
\* the user's own key, "settings" the platform's, "" none.
SelectedKeys(source, keys_of_user) ==
    [p \in Providers |->
        IF source = "user_keys"
        THEN (IF p \in keys_of_user THEN "user" ELSE "")
        ELSE "settings"]

\* The (run, model) pairs whose call_llm is followed: a run on the student's
\* keys and a run on the platform's keys, each calling gpt-4.1 and
\* gemini-2.5-pro.
ConcurrentCalls ==
    <<[key_source |-> "user_keys", user_keys |-> {"openai", "anthropic"},
       model |-> "gpt-4.1"],
      [key_source |-> "user_keys", user_keys |-> {"openai", "anthropic"},
       model |-> "gemini-2.5-pro"],
      [key_source |-> "harvard_unlimited", user_keys |-> {},
       model |-> "gpt-4.1"],
      [key_source |-> "harvard_unlimited", user_keys |-> {},
       model |-> "gemini-2.5-pro"]>>

NewCall(c) ==
    [key_source |-> c.key_source, user_keys |-> c.user_keys, model |-> c.model,
     st |-> "created", attempt_number |-> 0, wait |-> 0, error |-> "",
     api_key |-> "", used_key |-> ""]

InitKeys ==
    /\ CouncilIdle
    /\ litellm_keys = NoKeys
    /\ calls = [c \in 1..Len(ConcurrentCalls) |-> NewCall(ConcurrentCalls[c])]
    /\ timing = "immediate"
    /\ status = "pending"
    /\ transcript = 0
    /\ grade_docs = {}
    /\ final_doc = None
    /\ workers = <<>>

\* Lines 93-128 up to the await: init_llm overwrites the globals; the key
\* check of lines 94-101 raises, or kwargs are built (api_key only for a
\* gemini model, lines 115-118) and litellm.acompletion is awaited.
Attempt(c, k) ==
    LET call == calls[c]
        selected == SelectedKeys(call.key_source, call.user_keys)
    IN  /\ litellm_keys' = selected
        /\ calls' = [calls EXCEPT ![c] =
              IF call.key_source = "user_keys" /\ Provider(call.model) \notin call.user_keys
              THEN AfterFailure(call, k)
              ELSE [call EXCEPT !.st = "calling", !.attempt_number = k, !.wait = 0,
                                !.api_key = IF Provider(call.model) = "google"
                                            THEN selected["google"] ELSE ""]]
        /\ UNCHANGED <<council, session_docs>>

CallLlmStarts(c) ==
    /\ calls[c].st = "created"
    /\ Attempt(c, 1)

CallLlmRetries(c) ==
    /\ calls[c].st = "sleeping"
    /\ Attempt(c, calls[c].attempt_number + 1)

\* Inside litellm.acompletion: the request is built with kwargs["api_key"]
\* or, without one, with the provider's key found in the globals at that time.
ProviderRequestBuilt(c) ==
    /\ calls[c].st = "calling"
    /\ calls' = [calls EXCEPT ![c] =
          [calls[c] EXCEPT !.st = "sent",
                           !.used_key = IF calls[c].api_key # "" THEN calls[c].api_key
                                        ELSE litellm_keys[Provider(calls[c].model)]]]
    /\ UNCHANGED <<council, litellm_keys, session_docs>>

ProviderResponds(c) ==
    /\ calls[c].st = "sent"
    /\ calls' = [calls EXCEPT ![c] = [@ EXCEPT !.st = "returned", !.attempt_number = 0]]
    /\ UNCHANGED <<council, litellm_keys, session_docs>>

ProviderFails(c) ==
    /\ calls[c].st = "sent"
    /\ calls' = [calls EXCEPT ![c] = AfterFailure(@, @.attempt_number)]
    /\ UNCHANGED <<council, litellm_keys, session_docs>>

NextKeys ==
    \/ \E c \in 1..Len(ConcurrentCalls) : CallLlmStarts(c)
    \/ \E c \in 1..Len(ConcurrentCalls) : CallLlmRetries(c)
    \/ \E c \in 1..Len(ConcurrentCalls) : ProviderRequestBuilt(c)
    \/ \E c \in 1..Len(ConcurrentCalls) : ProviderResponds(c)
    \/ \E c \in 1..Len(ConcurrentCalls) : ProviderFails(c)

SpecKeys == InitKeys /\ [][NextKeys]_vars

\* ------------------------------------------------------------------------
\* One session under the session and grading endpoints and its
\* grade_session_task background tasks.  FirestoreService calls the
\* synchronous client, so a handler runs from its first line to its return
\* without interleaving, and a task is interrupted only while it awaits
\* grade_with_council.
\* ------------------------------------------------------------------------

MaxTasks == 2
MaxMessages == 1

\* assignment.grading.models of the session's assignment.
SessionModels == SubSeq(DefaultModels, 1, 2)

\* What grade_with_council returns, as far as it is persisted: the number of
\* round-1 grades (at least one) and of round-2 grades (0 for None).
CouncilResults ==
    {[round1_grades |-> n1, round2_grades |-> n2] :
        n1 \in 1..Len(SessionModels), n2 \in 0..Len(SessionModels)}

NoCouncilResult == [round1_grades |-> 0, round2_grades |-> 0]

\* background_tasks.add_task(grade_session_task, course_id, session_id, db)
AddTask(via) ==
    workers' = Append(workers, [st |-> "queued", via |-> via, result |-> NoCouncilResult])

InitSession ==
    /\ CouncilIdle
    /\ litellm_keys = NoKeys
    /\ calls = <<>>
    /\ timing \in {"immediate", "on_demand", "student_triggered"}
    /\ status = "pending"
    /\ transcript = 0
    /\ grade_docs = {}
    /\ final_doc = None
    /\ workers = <<>>

\* sessions.py start_session.
StartSession ==
    /\ status = "pending"
    /\ status' = "in_progress"
    /\ UNCHANGED <<council, llm_globals, timing, transcript, grade_docs, final_doc, workers>>

\* sessions.py add_message.
AddMessage ==
    /\ status \in {"pending", "in_progress"}
    /\ transcript < MaxMessages
    /\ transcript' = transcript + 1
    /\ status' = "in_progress"
    /\ UNCHANGED <<council, llm_globals, timing, grade_docs, final_doc, workers>>

\* sessions.py end_session: refused only for a completed session; queues a
\* grading task when the assignment grades immediately.
EndSession ==
    /\ status # "completed"
    /\ status' = "completed"
    /\ IF timing = "immediate"
       THEN Len(workers) < MaxTasks /\ AddTask("end_session")
       ELSE UNCHANGED workers
    /\ UNCHANGED <<council, llm_globals, timing, transcript, grade_docs, final_doc>>

\* grading.py trigger_grading.
TriggerGrading(role, force_regrade) ==
    /\ role = "student" => timing = "student_triggered"
    /\ ~(status = "graded" /\ ~force_regrade)
    /\ status # "grading"
    /\ Len(workers) < MaxTasks
    /\ AddTask(IF force_regrade THEN "force_regrade" ELSE "trigger_grading")
    /\ UNCHANGED <<council, llm_globals, timing, transcript, status, grade_docs, final_doc>>

\* grading.py grade_all_pending: the session is in the list when completed.
GradeAllPending ==
    /\ status = "completed"
    /\ Len(workers) < MaxTasks
    /\ AddTask("grade_all_pending")
    /\ UNCHANGED <<council, llm_globals, timing, transcript, status, grade_docs, final_doc>>

\* grade_session_task lines 43-88: load session and assignment, set the
\* status to grading, await grade_with_council.
TaskStarts(w) ==
    /\ w \in DOMAIN workers
    /\ workers[w].st = "queued"
    /\ status' = "grading"
    /\ workers' = [workers EXCEPT ![w].st = "council"]
    /\ UNCHANGED <<council, llm_globals, timing, transcript, grade_docs, final_doc>>

\* The documents lines 98-114 add for a result: one per round-1 grade and one
\* per round-2 grade, each under a fresh id.
GradeDocs(w, res) ==
    {[task |-> w, round |-> 1, grade |-> k] : k \in 1..res.round1_grades}
    \cup {[task |-> w, round |-> 2, grade |-> k] : k \in 1..res.round2_grades}

\* Lines 88-139: grade_with_council returns; save the grades, set document
\* "final", set the status to graded.
CouncilReturns(w, res) ==
    /\ w \in DOMAIN workers
    /\ workers[w].st = "council"
    /\ grade_docs' = grade_docs \cup GradeDocs(w, res)
    /\ final_doc' = Some([task |-> w])
    /\ status' = "graded"
    /\ workers' = [workers EXCEPT ![w].st = "graded", ![w].result = res]
    /\ UNCHANGED <<council, llm_globals, timing, transcript>>

CouncilRaises_StatusKept(w) ==
    /\ w \in DOMAIN workers
    /\ workers[w].st = "council"
    /\ workers' = [workers EXCEPT ![w].st = "failed"]
    /\ UNCHANGED <<council, llm_globals, timing, transcript, status, grade_docs, final_doc>>

\* Lines 143-155: grade_with_council raises; set the status to error.
CouncilRaises(w) ==
    /\ w \in DOMAIN workers
    /\ workers[w].st = "council"
    /\ status' = "error"
    /\ workers' = [workers EXCEPT ![w].st = "failed"]
    /\ UNCHANGED <<council, llm_globals, timing, transcript, grade_docs, final_doc>>

NextSession ==
    \/ StartSession
    \/ AddMessage
    \/ EndSession
    \/ \E role \in {"student", "instructor"}, force_regrade \in BOOLEAN :
          TriggerGrading(role, force_regrade)
    \/ GradeAllPending
    \/ \E w \in 1..MaxTasks : TaskStarts(w)
    \/ \E w \in 1..MaxTasks, res \in CouncilResults : CouncilReturns(w, res)
    \/ \E w \in 1..MaxTasks : CouncilRaises(w)

SpecSession == InitSession /\ [][NextSession]_vars

\* ------------------------------------------------------------------------
\* Properties
\* ------------------------------------------------------------------------

Terminal == pc \in {"returned", "raised"}
Round1Over == pc \in {"round2_gather", "returned", "raised"}
Round2Attempted == round2_tasks # <<>>
AllFinished(tasks) ==
    \A i \in DOMAIN tasks : tasks[i].st \in {"returned", "raised"}
AllRaised(tasks) == \A i \in DOMAIN tasks : tasks[i].st = "raised"
PartialFailure(tasks) ==
    /\ AllFinished(tasks)
    /\ \E i \in DOMAIN tasks : tasks[i].st = "raised"
    /\ \E i \in DOMAIN tasks : tasks[i].st = "returned"

\* C1: if every round-1 task fails (call error or parse error), the run raises
\* the all-models-failed error, returns nothing and dispatches no round-2 call.
C1_TotalFailureIsFatal ==
    (Round1Over /\ AllRaised(round1_tasks)) =>
        /\ pc = "raised"
        /\ raised = AllFailed
        /\ result = NoResult
        /\ ~Round2Attempted

C1_Witness ==
    /\ pc = "raised"
    /\ raised = AllFailed
    /\ Len(round1_tasks) = 3
    /\ \E i \in DOMAIN round1_tasks : round1_tasks[i].error = "RetryError"
    /\ \E i \in DOMAIN round1_tasks : round1_tasks[i].error = "ValueError"

\* C2: in either round, when some but not all tasks fail, the round's grades
\* are exactly the grades of the tasks that returned, and the run finalizes
\* from them: after round 1 it returns with rounds_used 1 when the survivors
\* agree and otherwise goes on to round 2; after round 2 it returns the
\* aggregate of the round-2 survivors with rounds_used 2.
C2_PartialFailureTolerated ==
    /\ (Round1Over /\ PartialFailure(round1_tasks)) =>
          LET s == CollectGrades(round1_tasks)
              a == calculate_agreement(s)
          IN  /\ round1_grades = s
              /\ IF IsNumber(a) /\ RLe(agreement_threshold, a)
                 THEN /\ pc = "returned"
                      /\ result.rounds_used = 1
                      /\ result.final_grade = aggregate_grades(s, rubric)
                      /\ ~Round2Attempted
                 ELSE Round2Attempted
    /\ (Terminal /\ Round2Attempted /\ PartialFailure(round2_tasks)) =>
          LET s == CollectGrades(round2_tasks)
          IN  /\ pc = "returned"
              /\ round2_grades = s
              /\ result.rounds_used = 2
              /\ result.final_grade = aggregate_grades(s, rubric)

\* C3: with at least one round-1 survivor, agreement >= threshold makes the
\* run return the round-1 aggregate with rounds_used 1, round2_grades None and
\* no round-2 task; in every other case round 2 is attempted.
C3_ThresholdBranch ==
    (Round1Over /\ CollectGrades(round1_tasks) # <<>>) =>
        LET a == calculate_agreement(round1_grades)
        IN  IF IsNumber(a) /\ RLe(agreement_threshold, a)
            THEN /\ pc = "returned"
                 /\ result.rounds_used = 1
                 /\ result.round2_grades = None
                 /\ result.final_grade = aggregate_grades(round1_grades, rubric)
                 /\ ~Round2Attempted
            ELSE Round2Attempted

\* C4: when round 2 ran and at least one round-2 task returned, the run
\* returns the aggregate of the round-2 grades, rounds_used 2 and the
\* agreement of the round-2 grades.
C4_Round2Finalizes ==
    (Terminal /\ Round2Attempted /\ CollectGrades(round2_tasks) # <<>>) =>
        LET s == CollectGrades(round2_tasks)
        IN  /\ pc = "returned"
            /\ result.final_grade = aggregate_grades(s, rubric)
            /\ result.rounds_used = 2
            /\ result.agreement_score = calculate_agreement(s)

\* C5: when round 2 ran and every round-2 task failed, the run still returns:
\* the aggregate of the round-1 grades, rounds_used 1, and the agreement
\* computed on round 1 before the branch.
C5_Round2TotalFailureFallsBack ==
    (Terminal /\ Round2Attempted /\ AllRaised(round2_tasks)) =>
        /\ pc = "returned"
        /\ raised = ""
        /\ result.round1_grades = round1_grades
        /\ result.final_grade = aggregate_grades(round1_grades, rubric)
        /\ result.rounds_used = 1
        /\ result.agreement_score = agreement

C5_Witness ==
    /\ pc = "returned"
    /\ Round2Attempted
    /\ AllRaised(round2_tasks)
    /\ Len(round1_grades) >= 2

\* C6 as stated: after a round 2 without survivors the returned round2_grades
\* is the empty list, so None always means that round 2 was never attempted.
C6_EmptyNotNull ==
    /\ (pc = "returned" /\ Round2Attempted /\ AllRaised(round2_tasks)) =>
          result.round2_grades = Some(<<>>)
    /\ (pc = "returned" /\ result.round2_grades = None) => ~Round2Attempted

\* C6 amended: after a round 2 without survivors the returned round2_grades is
\* None, as when round 2 was never attempted; a round2_grades other than None
\* is the non-empty list of round-2 survivors.
C6_NullWhenNoSurvivor ==
    /\ (pc = "returned" /\ Round2Attempted /\ AllRaised(round2_tasks)) =>
          result.round2_grades = None
    /\ (pc = "returned" /\ result.round2_grades # None) =>
          /\ Round2Attempted
          /\ CollectGrades(round2_tasks) # <<>>
          /\ result.round2_grades = Some(CollectGrades(round2_tasks))

C6_Witness ==
    /\ pc = "returned"
    /\ Round2Attempted
    /\ AllRaised(round2_tasks)
    /\ result.round2_grades = None

\* C7: when round 2 runs there is exactly one round-2 task per entry of the
\* models argument, also for models whose round-1 task failed, and the prompt
\* of each carries every surviving round-1 grade.
C7_Round2DispatchesAll ==
    Round2Attempted =>
        /\ Len(round2_tasks) = Len(models)
        /\ \A i \in DOMAIN round2_tasks :
              /\ round2_tasks[i].model = models[i]
              /\ round2_tasks[i].round_num = 2
              /\ round2_tasks[i].prompt.other_grades =
                    [k \in DOMAIN CollectGrades(round1_tasks) |->
                        [model |-> CollectGrades(round1_tasks)[k].model,
                         scores |-> CollectGrades(round1_tasks)[k].scores]]

C7_Witness ==
    /\ Round2Attempted
    /\ Len(models) = 3
    /\ round1_tasks[1].st = "raised"
    /\ Len(round2_tasks[1].prompt.other_grades) = 2

\* C8: the only exception that leaves grade_with_council is the
\* all-models-failed error; with a round-1 survivor the run returns a result.
C8_OnlyAllFailedEscalates ==
    /\ raised \in {"", AllFailed}
    /\ (Terminal /\ CollectGrades(round1_tasks) # <<>>) => pc = "returned"

\* C9: the code after a gather (collection, agreement, round 2 or return) runs
\* only once every task of that gather has returned or raised.
C9_WaitForAll ==
    /\ Round1Over => AllFinished(round1_tasks)
    /\ (Terminal /\ Round2Attempted) => AllFinished(round2_tasks)
    /\ (pc = "round1_gather" /\ ~AllFinished(round1_tasks)) =>
          /\ round1_grades = <<>>
          /\ agreement = Unassigned
    /\ (pc = "round2_gather" /\ ~AllFinished(round2_tasks)) =>
          /\ round2_grades = <<>>
          /\ result = NoResult

C9_Witness ==
    /\ pc = "returned"
    /\ result.rounds_used = 2
    /\ \E i \in DOMAIN round1_tasks : round1_tasks[i].st = "raised"
    /\ \E i \in DOMAIN round2_tasks : round2_tasks[i].st = "raised"
    /\ Len(round2_grades) = 2

\* C10: a task makes at most 3 attempts; a provider error on attempt 1 or 2
\* puts the task to sleep and the next attempt follows; a success ends the
\* task for good; a provider error on attempt 3 ends the task with RetryError,
\* which leaves the caller's state alone and the model out of the grades.
C10_Step ==
    \A r \in {1, 2} : \A i \in DOMAIN Tasks(r) :
        LET t == Tasks(r)[i]
            u == IF r = 1 THEN round1_tasks'[i] ELSE round2_tasks'[i]
        IN  /\ u.attempt_number <= MaxAttempts
            /\ CallFails(r, i) =>
                  IF t.attempt_number < MaxAttempts
                  THEN u.st = "sleeping" /\ u.attempt_number = t.attempt_number
                  ELSE /\ u.st = "raised"
                       /\ u.error = "RetryError"
                       /\ pc' = pc /\ raised' = raised
            /\ (t.st = "sleeping" /\ u # t) =>
                  /\ u.attempt_number \in {0, t.attempt_number + 1}
                  /\ u.attempt_number = 0 =>
                        u.st = "raised" /\ t.attempt_number = MaxAttempts - 1
            /\ t.st = "returned" => u = t
            /\ t.error = "RetryError" =>
                  /\ u = t
                  /\ \A k \in DOMAIN round1_grades' :
                        r = 1 => round1_grades'[k].model # t.model
                  /\ \A k \in DOMAIN round2_grades' :
                        r = 2 => round2_grades'[k].model # t.model

C10_RetryBound == [][C10_Step]_vars

C10_Witness ==
    /\ pc = "returned"
    /\ key_source = "harvard_unlimited"
    /\ round1_tasks[1].error = "RetryError"
    /\ Len(round1_grades) = 2
\* C11: a task whose model lacks its provider key fails on its first attempt:
\* it is never put to sleep for a retry, it ends raised without any backoff
\* wait, and it contributes no grade to its round.
C11_ConfigErrorNotRetried ==
    \A r \in {1, 2} : \A i \in DOMAIN Tasks(r) :
        KeyMissing(Tasks(r)[i].model) =>
            /\ Tasks(r)[i].st = "raised"
            /\ Tasks(r)[i].wait = 0
            /\ \A k \in DOMAIN round1_grades :
                  r = 1 => round1_grades[k].model # Tasks(r)[i].model
            /\ \A k \in DOMAIN round2_grades :
                  r = 2 => round2_grades[k].model # Tasks(r)[i].model
\* ------------------------------------------------------------------------
\* Properties of runs with unvalidated answers
\* ------------------------------------------------------------------------

NonNegativeWeights ==
    \A k \in DOMAIN rubric : RLe(FromInt(0), rubric[k].weight)

\* C12: with non-negative rubric weights, every final grade a run returns has
\* 0 <= total_score <= max_possible_score and 0 <= percentage <= 100.
C12_FinalGradeBounds ==
    (pc = "returned" /\ NonNegativeWeights) =>
        /\ RLe(FromInt(0), result.final_grade.total_score)
        /\ RLe(result.final_grade.total_score, result.final_grade.max_possible_score)
        /\ RLe(FromInt(0), result.final_grade.percentage)
        /\ RLe(result.final_grade.percentage, FromInt(100))
\* ------------------------------------------------------------------------
\* Properties of calculate_agreement and aggregate_grades
\* ------------------------------------------------------------------------

RAbs(x) == <<Abs(x[1]), x[2]>>
Close(x, y, tol) == RLe(RAbs(RSub(x, y)), tol)
IsMultipleOf(x, unit) == (x[1] * unit[2]) % (x[2] * unit[1]) = 0

RECURSIVE SetSum(_, _)
SetSum(S, f) ==
    IF S = {} THEN FromInt(0)
    ELSE LET x == CHOOSE y \in S : TRUE
         IN  RAdd(f[x], SetSum(S \ {x}, f))

\* The reference aggregate, computed over the set of (grader, entry)
\* positions of the grades rather than by the code's loops.
RefPositions(grades) ==
    UNION {{<<g, k>> : k \in DOMAIN grades[g].scores} : g \in DOMAIN grades}
RefEntry(grades, p) == grades[p[1]].scores[p[2]]
RefCategories(grades) ==
    {RefEntry(grades, p).category : p \in RefPositions(grades)}
RefReports(grades, c) ==
    {p \in RefPositions(grades) : RefEntry(grades, p).category = c}
RefMean(grades, c) ==
    RDiv(SetSum(RefReports(grades, c),
                [p \in RefReports(grades, c) |-> FromInt(RefEntry(grades, p).score)]),
         FromInt(Cardinality(RefReports(grades, c))))
RefFirst(grades, c) ==
    CHOOSE p \in RefReports(grades, c) :
        \A q \in RefReports(grades, c) :
            p[1] < q[1] \/ (p[1] = q[1] /\ p[2] <= q[2])
RefMaxScore(grades, c) == FromInt(RefEntry(grades, RefFirst(grades, c)).max_score)
RefWeight(rub, c) ==
    IF \E k \in DOMAIN rub : rub[k].name = c
    THEN rub[CHOOSE k \in DOMAIN rub : rub[k].name = c].weight
    ELSE FromInt(1)
RefTotalScore(grades, rub) ==
    SetSum(RefCategories(grades),
           [c \in RefCategories(grades) |->
               RMul(RefMean(grades, c), RefWeight(rub, c))])
RefMaxPossible(grades, rub) ==
    SetSum(RefCategories(grades),
           [c \in RefCategories(grades) |->
               RMul(RefMaxScore(grades, c), RefWeight(rub, c))])
RefPercentage(grades, rub) ==
    IF RLt(FromInt(0), RefMaxPossible(grades, rub))
    THEN RDiv(RMul(FromInt(100), RefTotalScore(grades, rub)),
              RefMaxPossible(grades, rub))
    ELSE FromInt(0)

\* C13 as stated: the reported total_score, max_possible_score and percentage
\* match the weighted-mean reference within 1e-6.
C13_WithinTolerance ==
    pc = "aggregate_returned" =>
        /\ Close(result.final_grade.total_score,
                 RefTotalScore(round1_grades, rubric), Rat(1, 1000000))
        /\ Close(result.final_grade.max_possible_score,
                 RefMaxPossible(round1_grades, rubric), Rat(1, 1000000))
        /\ Close(result.final_grade.percentage,
                 RefPercentage(round1_grades, rubric), Rat(1, 1000000))

\* C13 amended: the reported values are the reference values rounded, the
\* totals to 2 decimals and the percentage to 1 decimal, hence within 0.005
\* and 0.05 of the reference.
C13_RoundedReference ==
    pc = "aggregate_returned" =>
        /\ Close(result.final_grade.total_score,
                 RefTotalScore(round1_grades, rubric), Rat(1, 200))
        /\ IsMultipleOf(result.final_grade.total_score, Rat(1, 100))
        /\ Close(result.final_grade.max_possible_score,
                 RefMaxPossible(round1_grades, rubric), Rat(1, 200))
        /\ IsMultipleOf(result.final_grade.max_possible_score, Rat(1, 100))
        /\ Close(result.final_grade.percentage,
                 RefPercentage(round1_grades, rubric), Rat(1, 20))
        /\ IsMultipleOf(result.final_grade.percentage, Rat(1, 10))

C13_Witness ==
    /\ pc = "aggregate_returned"
    /\ Len(round1_grades) = 3
    /\ Cardinality(RefCategories(round1_grades)) = 2
    /\ result.final_grade.total_score # RefTotalScore(round1_grades, rubric)
    /\ result.final_grade.percentage # RefPercentage(round1_grades, rubric)
AgreementCallOver == pc \in {"agreement_returned", "agreement_raised"}

\* C14: for a non-empty list of grades calculate_agreement returns, and the
\* value it returns lies in [0, 1].
C14_AgreementBounds ==
    (AgreementCallOver /\ round1_grades # <<>>) =>
        /\ pc = "agreement_returned"
        /\ RLe(FromInt(0), agreement)
        /\ RLe(agreement, FromInt(1))

\* The graders whose grade dict lists category c at least once.
RefGradersOf(grades, c) == {p[1] : p \in RefReports(grades, c)}

\* C15: calculate_agreement returns exactly 1 for fewer than 2 grades, and
\* for any grades among which no category is scored by 2 or more graders.
C15_NothingToCompare ==
    (/\ AgreementCallOver
     /\ \/ Len(round1_grades) < 2
        \/ \A c \in RefCategories(round1_grades) :
              Cardinality(RefGradersOf(round1_grades, c)) < 2) =>
        /\ pc = "agreement_returned"
        /\ agreement = FromInt(1)

\* The reference agreement: per category with at least two scores, the
\* population variance as mean of squares minus squared mean; their mean;
\* then max(0, 1 - min(4 * avg, 1)) by cases.
RefNormalized(grades, p) ==
    Rat(RefEntry(grades, p).score, RefEntry(grades, p).max_score)
RefVariance(grades, c) ==
    LET P == RefReports(grades, c)
        n == FromInt(Cardinality(P))
        mean == RDiv(SetSum(P, [p \in P |-> RefNormalized(grades, p)]), n)
        mean_sq == RDiv(SetSum(P, [p \in P |->
                      RMul(RefNormalized(grades, p), RefNormalized(grades, p))]), n)
    IN  RSub(mean_sq, RMul(mean, mean))
RefCompared(grades) ==
    {c \in RefCategories(grades) : Cardinality(RefReports(grades, c)) >= 2}
RefAvgVariance(grades) ==
    RDiv(SetSum(RefCompared(grades),
                [c \in RefCompared(grades) |-> RefVariance(grades, c)]),
         FromInt(Cardinality(RefCompared(grades))))
RefAgreement(grades) ==
    IF RLe(Rat(1, 4), RefAvgVariance(grades)) THEN FromInt(0)
    ELSE RSub(FromInt(1), RMul(FromInt(4), RefAvgVariance(grades)))
RefAllNormalizable(grades) ==
    \A p \in RefPositions(grades) : RefEntry(grades, p).max_score # 0

\* C17: when at least two grades are compared on some category,
\* calculate_agreement returns max(0, 1 - min(4 * avgVariance, 1)) for the
\* mean avgVariance of the per-category population variances of the
\* normalized scores; an avgVariance of 0.25 or more gives 0.
C17_VarianceMapping ==
    (/\ AgreementCallOver
     /\ Len(round1_grades) >= 2
     /\ RefAllNormalizable(round1_grades)
     /\ RefCompared(round1_grades) # {}) =>
        /\ pc = "agreement_returned"
        /\ agreement = RefAgreement(round1_grades)
        /\ RLe(Rat(1, 4), RefAvgVariance(round1_grades)) => agreement = FromInt(0)

C17_Witness ==
    /\ pc = "agreement_returned"
    /\ Len(round1_grades) = 3
    /\ RefAllNormalizable(round1_grades)
    /\ RefCompared(round1_grades) # {}
    /\ RLt(Rat(1, 4), RefAvgVariance(round1_grades))
    /\ agreement = FromInt(0)

\* Every category score has a normalized value, and any two scores of the
\* same category have the same one (compared by cross-multiplication).
IdenticalNormalized(grades) ==
    /\ RefAllNormalizable(grades)
    /\ \A p, q \in RefPositions(grades) :
          RefEntry(grades, p).category = RefEntry(grades, q).category =>
              RefEntry(grades, p).score * RefEntry(grades, q).max_score
                  = RefEntry(grades, q).score * RefEntry(grades, p).max_score

\* C16: when the round-1 survivors report identical normalized scores for
\* every category, the agreement is 1 and, the threshold being at most 1, the
\* run returns after one round without dispatching round 2.
C16_PerfectAgreement ==
    (/\ Round1Over
     /\ round1_grades # <<>>
     /\ IdenticalNormalized(round1_grades)
     /\ RLe(agreement_threshold, FromInt(1))) =>
        /\ pc = "returned"
        /\ result.agreement_score = FromInt(1)
        /\ result.rounds_used = 1
        /\ result.round2_grades = None
        /\ ~Round2Attempted

C16_Witness ==
    /\ pc = "returned"
    /\ Len(round1_grades) = 2
    /\ round1_grades[1].scores # round1_grades[2].scores
    /\ IdenticalNormalized(round1_grades)
    /\ agreement_threshold = FromInt(1)
    /\ result.rounds_used = 1

\* C18: in the scenario run with threshold 0.8 in which all three models
\* return their grade in round 1, the run returns with rounds_used 1, an
\* agreement of about 0.964, total_score 11, max_possible_score 15 and
\* percentage 73.3.
C18_Scenario ==
    (/\ Round1Over
     /\ agreement_threshold = Rat(4, 5)
     /\ \A i \in DOMAIN round1_tasks : round1_tasks[i].st = "returned") =>
        /\ pc = "returned"
        /\ result.rounds_used = 1
        /\ ~Round2Attempted
        /\ Close(result.agreement_score, Rat(964, 1000), Rat(1, 2000))
        /\ result.final_grade.total_score = FromInt(11)
        /\ result.final_grade.max_possible_score = FromInt(15)
        /\ result.final_grade.percentage = Rat(733, 10)

C18_Witness ==
    /\ pc = "returned"
    /\ rubric = ScenarioRubric
    /\ agreement_threshold = Rat(4, 5)
    /\ Len(result.round1_grades) = 3
    /\ \A i \in 1..3 : result.round1_grades[i].scores = ScenarioScores[i]
    /\ result.rounds_used = 1
    /\ result.final_grade.total_score = FromInt(11)

\* ------------------------------------------------------------------------
\* Properties of the parsing of a grader's answer
\* ------------------------------------------------------------------------

LacksEntryField(content) ==
    \E k \in DOMAIN content.scores : ~(EntryKeys \subseteq content.scores[k].keys)
\* Not parseable, or one of scores, an entry field, overall_feedback,
\* confidence is absent.
LacksListedField(content) ==
    \/ ~content.json
    \/ \E f \in {"scores", "overall_feedback", "confidence"} : f \notin content.keys
    \/ LacksEntryField(content)
\* Not parseable, or one of scores, an entry field, overall_feedback is absent.
LacksLookedUpField(content) ==
    \/ ~content.json
    \/ \E f \in {"scores", "overall_feedback"} : f \notin content.keys
    \/ LacksEntryField(content)

Received(r, i, content) ==
    CallReturnsGrade(r, i, content) \/ CallReturnsMalformed(r, i, content)

\* The step rejects or accepts the answer of pair (i, r) and touches nothing
\* else.
ParseOutcome(r, i, content, rejected) ==
    LET after == IF r = 1 THEN round1_tasks'[i] ELSE round2_tasks'[i]
    IN  /\ \A j \in DOMAIN round1_tasks :
              (r # 1 \/ j # i) => round1_tasks'[j] = round1_tasks[j]
        /\ \A j \in DOMAIN round2_tasks :
              (r # 2 \/ j # i) => round2_tasks'[j] = round2_tasks[j]
        /\ UNCHANGED <<pc, round1_grades, round2_grades, result, raised>>
        /\ rejected =>
              /\ after.st = "raised"
              /\ after.error = "ValueError"
              /\ after.scores = <<>>
        /\ ~rejected =>
              /\ after.st = "returned"
              /\ after.confidence = IF "confidence" \in content.keys
                                    THEN content.confidence ELSE DefaultConfidence

\* A round's grades come from exactly the pairs whose call returned a grade.
GradesOnlyFromReturned ==
    /\ Round1Over =>
          {round1_grades[k].model : k \in DOMAIN round1_grades}
              = {round1_tasks[i].model :
                    i \in {j \in DOMAIN round1_tasks : round1_tasks[j].st = "returned"}}
    /\ (pc = "returned" /\ Round2Attempted) =>
          {round2_grades[k].model : k \in DOMAIN round2_grades}
              = {round2_tasks[i].model :
                    i \in {j \in DOMAIN round2_tasks : round2_tasks[j].st = "returned"}}

C19_ListedStep ==
    \A r \in {1, 2}, i \in 1..Len(DefaultModels), content \in WideResponses :
        Received(r, i, content) => ParseOutcome(r, i, content, LacksListedField(content))

\* C19 as stated: an answer that is not parseable or lacks scores, an entry
\* field, overall_feedback or confidence is a parse error of its (model, round)
\* pair only, which then contributes no grade to the round.
C19_MissingFieldRejected == []GradesOnlyFromReturned /\ [][C19_ListedStep]_vars

C19_LookedUpStep ==
    \A r \in {1, 2}, i \in 1..Len(DefaultModels), content \in WideResponses :
        Received(r, i, content) => ParseOutcome(r, i, content, LacksLookedUpField(content))

\* C19 amended: an answer that is not parseable or lacks scores, an entry
\* field or overall_feedback is a parse error of its (model, round) pair only,
\* which then contributes no grade to the round; an answer lacking only
\* confidence is accepted with confidence 0.8.
C19_MissingConfidenceDefaults == []GradesOnlyFromReturned /\ [][C19_LookedUpStep]_vars

C19_Witness ==
    /\ pc = "returned"
    /\ round1_tasks[1].st = "raised"
    /\ round1_tasks[1].error = "ValueError"
    /\ round1_tasks[2].st = "returned"
    /\ Len(result.round1_grades) = 1
    /\ result.round1_grades[1].model = round1_tasks[2].model
    /\ result.round1_grades[1].confidence = DefaultConfidence

WithinBounds(e) == 0 <= e.score /\ e.score <= e.max_score
FinalWithinBounds(e) ==
    RLe(FromInt(0), e.score) /\ RLe(e.score, FromInt(e.max_score))

\* C20: in a returned result every category score of every round-1 and
\* round-2 grade, and every category score of the final grade, has
\* 0 <= score <= max_score.
C20_ScoreWithinMax ==
    pc = "returned" =>
        /\ \A k \in DOMAIN result.round1_grades :
              \A n \in DOMAIN result.round1_grades[k].scores :
                 WithinBounds(result.round1_grades[k].scores[n])
        /\ \A grades \in result.round2_grades :
              \A k \in DOMAIN grades :
                 \A n \in DOMAIN grades[k].scores : WithinBounds(grades[k].scores[n])
        /\ \A n \in DOMAIN result.final_grade.scores :
              FinalWithinBounds(result.final_grade.scores[n])

\* ------------------------------------------------------------------------
\* Properties of the pairing of calls, results and credentials
\* ------------------------------------------------------------------------

\* Grade g of a round is the answer of the call made for g.model: that call
\* returned, with the scores scripted for its model.
AttributedToCaller(g, tasks) ==
    \E i \in DOMAIN models :
        /\ models[i] = g.model
        /\ tasks[i].st = "returned"
        /\ tasks[i].model = g.model
        /\ g.scores = tasks[i].scores
        /\ g.scores = ScenarioScores[i]
        /\ \A j \in DOMAIN models \ {i} : g.scores # ScenarioScores[j]
OneGradePerModel(grades) ==
    \A k, n \in DOMAIN grades : grades[k].model = grades[n].model => k = n

\* C21: in either round, whatever order the calls finished in, every grade
\* carries the model of the call that produced it, and no model has two grades.
C21_AttributedToOriginator ==
    /\ Round1Over =>
          /\ \A k \in DOMAIN round1_grades :
                AttributedToCaller(round1_grades[k], round1_tasks)
          /\ OneGradePerModel(round1_grades)
    /\ (pc = "returned" /\ Round2Attempted) =>
          /\ \A k \in DOMAIN round2_grades :
                AttributedToCaller(round2_grades[k], round2_tasks)
          /\ OneGradePerModel(round2_grades)
    /\ pc = "returned" =>
          /\ result.round1_grades = round1_grades
          /\ \A grades \in result.round2_grades : grades = round2_grades

C21_Witness ==
    /\ pc = "returned"
    /\ round1_tasks[1].st = "raised"
    /\ round1_tasks[2].st = "returned"
    /\ round1_tasks[3].st = "returned"
    /\ Len(result.round1_grades) = 2
    /\ result.round1_grades[1].model = models[2]
    /\ result.round1_grades[2].model = models[3]
    /\ Round2Attempted
    /\ round2_tasks[2].st = "raised"
    /\ Len(round2_grades) = 2

\* C22: every call of round 1 and of round 2 is given the key_source the run
\* was given, and the run never changes its key_source.
C22_Step == key_source' = key_source /\ user_keys' = user_keys
C22_SameKeySource ==
    /\ [](\A i \in DOMAIN round1_tasks : round1_tasks[i].key_source = key_source)
    /\ [](\A i \in DOMAIN round2_tasks : round2_tasks[i].key_source = key_source)
    /\ [][C22_Step]_vars

C22_Witness ==
    /\ key_source = "user_keys"
    /\ Len(round1_tasks) = 2
    /\ Len(round2_tasks) = 2
    /\ \A i \in 1..2 : round1_tasks[i].key_source = "user_keys"
    /\ \A i \in 1..2 : round2_tasks[i].key_source = "user_keys"
    /\ pc = "returned"

\* C23: every call whose request went out used the key its own run selects
\* for the model's provider, whatever other calls were in flight.
C23_OwnCredentials ==
    \A c \in DOMAIN calls :
        calls[c].st \in {"sent", "returned"} =>
            calls[c].used_key =
                SelectedKeys(calls[c].key_source, calls[c].user_keys)[Provider(calls[c].model)]

\* ------------------------------------------------------------------------
\* Properties of a session's grading tasks and status
\* ------------------------------------------------------------------------

\* Task w leaves grade_with_council by an exception in this step.
FailsNow(w) ==
    /\ w \in DOMAIN workers
    /\ workers[w].st = "council"
    /\ workers'[w].st = "failed"

C24_Step ==
    \A w \in 1..MaxTasks :
        FailsNow(w) =>
            /\ status' = "error"
            /\ final_doc' = final_doc
            /\ grade_docs' = grade_docs

\* A task whose council call failed has written no grade and no final grade.
NothingFromFailedTask ==
    \A w \in DOMAIN workers :
        workers[w].st = "failed" =>
            /\ \A d \in final_doc : d.task # w
            /\ \A d \in grade_docs : d.task # w

CompletesNow(w) ==
    /\ w \in DOMAIN workers
    /\ workers[w].st = "council"
    /\ workers'[w].st = "graded"

C26_Step ==
    \A w \in 1..MaxTasks :
        CompletesNow(w) =>
            /\ status' = "graded"
            /\ final_doc' = Some([task |-> w])
            /\ \A r \in {1, 2} :
                  Cardinality({d \in grade_docs' : d.round = r}) =
                      (IF r = 1 THEN workers'[w].result.round1_grades
                       ELSE workers'[w].result.round2_grades)
            /\ \A d \in grade_docs' : d.task = w

\* C26: when a task completes with status graded, the stored grade documents
\* are exactly one per round-1 and per round-2 grade of that task's result,
\* with one final-grade document, also when the session was graded before.
C26_RecordsMatchRun == [][C26_Step]_vars

\* C29: at most one grading task of the session is queued or running.
C29_OneTaskAtATime ==
    Cardinality({w \in DOMAIN workers : workers[w].st \in {"queued", "council"}}) <= 1

\* A regrade: a task queued by trigger_grading with force_regrade starts.
RegradeStarts ==
    \E w \in DOMAIN workers :
        /\ workers[w].via = "force_regrade"
        /\ workers[w].st = "queued"
        /\ workers'[w].st = "council"

StatusRank(s) ==
    CASE s = "pending" -> 0
      [] s = "in_progress" -> 1
      [] s = "completed" -> 2
      [] s = "grading" -> 3
      [] s \in {"graded", "error"} -> 4

C30_Step ==
    /\ status \in {"grading", "graded", "error"} =>
          status' \notin {"pending", "in_progress", "completed"}
    /\ status \in {"pending", "in_progress", "completed"} =>
          StatusRank(status') >= StatusRank(status)
    /\ (status = "graded" /\ status' # "graded") =>
          (status' = "grading" /\ RegradeStarts)

\* C30: the status never moves back: from grading, graded or error it does not
\* return to pending, in_progress or completed, before that it only advances,
\* and it leaves graded only when a regrade starts.
C30_StatusOnlyForward == [][C30_Step]_vars

\* The categories of the grades that the rubric names, and those it lacks.
Matched(grades, rub) ==
    {c \in RefCategories(grades) : \E k \in DOMAIN rub : rub[k].name = c}
Unmatched(grades, rub) == RefCategories(grades) \ Matched(grades, rub)
NamedWeight(rub, c) == rub[CHOOSE k \in DOMAIN rub : rub[k].name = c].weight
FinalCategories == {result.final_grade.scores[n].category :
                       n \in DOMAIN result.final_grade.scores}

\* C27: aggregate_grades weighs a category by the rubric category of the same
\* name and by 1 when the rubric has none; an unmatched category is part of
\* the final scores and adds its mean score to total_score and its max_score
\* to max_possible_score (both reported to 2 decimals).
C27_UnmatchedWeighsOne ==
    pc = "aggregate_returned" =>
        LET M == Matched(round1_grades, rubric)
            U == Unmatched(round1_grades, rubric)
            total == RAdd(SetSum(M, [c \in M |-> RMul(RefMean(round1_grades, c),
                                                       NamedWeight(rubric, c))]),
                          SetSum(U, [c \in U |-> RefMean(round1_grades, c)]))
            max_possible ==
                     RAdd(SetSum(M, [c \in M |-> RMul(RefMaxScore(round1_grades, c),
                                                       NamedWeight(rubric, c))]),
                          SetSum(U, [c \in U |-> RefMaxScore(round1_grades, c)]))
        IN  /\ FinalCategories = M \cup U
            /\ result.final_grade.total_score = Round(total, 2)
            /\ result.final_grade.max_possible_score = Round(max_possible, 2)

C27_Witness ==
    /\ pc = "aggregate_returned"
    /\ Matched(round1_grades, rubric) = {"Clarity"}
    /\ Unmatched(round1_grades, rubric) = {"Depth"}
    /\ NamedWeight(rubric, "Clarity") = Rat(1, 2)
    /\ Len(round1_grades) = 2
    /\ result.final_grade.total_score =
          RAdd(RMul(RefMean(round1_grades, "Clarity"), Rat(1, 2)),
               RefMean(round1_grades, "Depth"))
    /\ RLt(FromInt(0), RefMean(round1_grades, "Depth"))

\* The categories that two or more distinct graders scored.
ScoredByTwo(grades) ==
    {c \in RefCategories(grades) : Cardinality(RefGradersOf(grades, c)) >= 2}
AgreementOver(grades, cats) ==
    IF cats = {} THEN FromInt(1)
    ELSE LET avg == RDiv(SetSum(cats, [c \in cats |-> RefVariance(grades, c)]),
                         FromInt(Cardinality(cats)))
         IN  IF RLe(Rat(1, 4), avg) THEN FromInt(0)
             ELSE RSub(FromInt(1), RMul(FromInt(4), avg))

\* C28: the agreement calculate_agreement returns is the one computed from the
\* categories that at least 2 distinct graders scored; a category that only one
\* grader scored, however often, does not enter it.
C28_DistinctGraders ==
    pc = "agreement_returned" =>
        agreement = AgreementOver(round1_grades, ScoredByTwo(round1_grades))

\* ------------------------------------------------------------------------
\* Properties of the life cycle of a council run
\* ------------------------------------------------------------------------

Phase ==
    CASE pc = "start" -> "INIT"
      [] pc = "round1_gather" -> "ROUND1_INFLIGHT"
      [] pc = "round2_gather" -> "ROUND2_INFLIGHT"
      [] pc = "returned" /\ ~Round2Attempted -> "AGREED"
      [] pc = "returned" /\ Round2Attempted -> "FINALIZED"
      [] pc = "raised" /\ raised = AllFailed -> "ALL_FAILED"
      [] OTHER -> "UNCAUGHT"

PhaseMoves ==
    {<<"INIT", "ROUND1_INFLIGHT">>,
     <<"ROUND1_INFLIGHT", "AGREED">>,
     <<"ROUND1_INFLIGHT", "ROUND2_INFLIGHT">>,
     <<"ROUND1_INFLIGHT", "ALL_FAILED">>,
     <<"ROUND2_INFLIGHT", "FINALIZED">>}

C25_Step == Phase' = Phase \/ <<Phase, Phase'>> \in PhaseMoves

\* C25: a run moves only along INIT -> ROUND1_INFLIGHT -> (AGREED |
\* ROUND2_INFLIGHT -> FINALIZED | ALL_FAILED), never leaves AGREED, FINALIZED
\* or ALL_FAILED, and when it has ended it is in one of these three.
C25_LifeCycle ==
    /\ [](Terminal => Phase \in {"AGREED", "FINALIZED", "ALL_FAILED"})
    /\ [][C25_Step]_vars

====
